---- MODULE Spec2Model ----
(***************************************************************************)
(* Foodgram backend: the relational tables of recipes/models.py and        *)
(* users/models.py and the request handlers of api/views.py and            *)
(* api/serializers.py that write them.                                     *)
(*                                                                         *)
(* Every handler runs in a worker.  A handler that issues several queries  *)
(* is split at the points where another worker's query can fall between    *)
(* two of its own (the existence pre-check and the INSERT of add_to, the   *)
(* statements of a recipe write).  A join table (Favorite, ShoppingCart)   *)
(* is the number of rows stored per key pair; Subscribe is the sequence of *)
(* its rows in ascending id order; IngredientInRecipe is the number of     *)
(* rows per (recipe, ingredient, amount).                                  *)
(***************************************************************************)
EXTENDS Integers, Sequences, FiniteSets, TLC

\* ------------------------------------------------------------------ bounds
\* The users who send requests, and the recipes that can be created.
NumClients == 1
MaxRecipes == 2

\* The scope of the data: three accounts, three ingredients, two tags, amounts
\* 1 and 2, lists of up to two entries, cooking times 0 and 1, four tokens.
Users == {1, 2, 3}
\* The accounts with the admin role.
Admins == {3}
Clients == 1..NumClients
RecipeIds == 1..MaxRecipes
Ingredients == {1, 2, 3}
Tags == {1, 2}
Amounts == {1, 2}
CookingTimes == {0, 1}
Tokens == {"aB3x", "Zq7k", "m0Yt", "R5dw"}
\* The ids a request may name: those of RecipeIds and one that never resolves.
RequestIds == 1..(MaxRecipes + 1)
Workers == {"w1", "w2"}
Models == {"Favorite", "ShoppingCart"}

\* ------------------------------------------------------- program constants
COOKING_TIME_MIN_VALUE == 1
HTTP_200_OK == 200
HTTP_201_CREATED == 201
HTTP_204_NO_CONTENT == 204
HTTP_400_BAD_REQUEST == 400
HTTP_404_NOT_FOUND == 404

VARIABLES
    Recipe,             \* committed Recipe rows: id -> [author, cooking_time, pub_date]
    RecipeTags,         \* committed recipe/tag associations: set of <<recipe, tag>>
    IngredientInRecipe, \* committed line items: <<recipe, ingredient, amount>> -> rows
    Favorite,           \* <<user, recipe>> -> number of rows
    ShoppingCart,       \* <<user, recipe>> -> number of rows
    Subscribe,          \* rows <<user, author>> in ascending id order
    ShortLink,          \* rows <<original_url, short_link>>
    req,                \* worker -> the request it is serving and where it stands
    tx,                 \* the open write transaction's view of the recipe tables
    response            \* the response the last step sent, if it sent one

vars == <<Recipe, RecipeTags, IngredientInRecipe, Favorite, ShoppingCart,
          Subscribe, ShortLink, req, tx, response>>

recipeTables == <<Recipe, RecipeTags, IngredientInRecipe>>
\* The tables no recipe write touches.
joinTables == <<Favorite, ShoppingCart, Subscribe, ShortLink>>

\* ------------------------------------------------------------ small helpers
Range(s) == {s[i] : i \in DOMAIN s}

SeqsUpTo(S, n) == UNION {[1..k -> S] : k \in 0..n}

RECURSIVE SumOver(_, _)
SumOver(f, S) ==
    IF S = {} THEN 0
    ELSE LET x == CHOOSE y \in S : TRUE IN f[x] + SumOver(f, S \ {x})

\* The sequence s without the entries equal to k.
RECURSIVE Without(_, _)
Without(s, k) ==
    IF s = <<>> THEN <<>>
    ELSE IF Head(s) = k THEN Without(Tail(s), k)
    ELSE <<Head(s)>> \o Without(Tail(s), k)

\* A request body: the fields it carries and their values (a field it does not
\* carry has the empty value; author 0 is no author value).
NoData == [fields |-> {}, ingredients |-> <<>>, tags |-> <<>>, cooking_time |-> 0,
           author |-> 0]

Idle == [pc |-> "idle", model |-> "", user |-> 0, pk |-> 0, data |-> NoData,
         short_url |-> <<>>]

NoResponse == [op |-> "none", status |-> 0, error |-> "", body |-> <<>>]

Resp(op, status, error) ==
    [op |-> op, status |-> status, error |-> error, body |-> <<>>]

\* An exception no handler catches: the framework answers 500.
Fault(op, error) == Resp(op, 500, error)

EmptyJoin == [k \in Users \X RecipeIds |-> 0]
EmptyItems == [k \in RecipeIds \X Ingredients \X Amounts |-> 0]

NoTx == [open |-> FALSE, Recipe |-> <<>>, RecipeTags |-> {},
         IngredientInRecipe |-> EmptyItems]

\* ------------------------------------------------- data-store constraints
\* The table without the constraint.
unique_favorite_dropped(table, k) == TRUE

\* UniqueConstraint unique_favorite: may a row with key k be inserted?
unique_favorite(table, k) == table[k] = 0

\* UniqueConstraint unique_shopping_cart.
unique_shopping_cart(table, k) == table[k] = 0

\* UniqueConstraint unique_subscription.
unique_subscription(rows, k) == \A i \in DOMAIN rows : rows[i] # k

\* UniqueConstraint unique_ingredient_in_recipe, on (recipe, ingredient):
\* does the table hold at most one row per pair?
unique_ingredient_in_recipe(items) ==
    \A r \in RecipeIds, i \in Ingredients :
        SumOver([a \in Amounts |-> items[<<r, i, a>>]], Amounts) <= 1

JoinTable(model) == IF model = "Favorite" THEN Favorite ELSE ShoppingCart

JoinUnique(model, table, k) ==
    IF model = "Favorite" THEN unique_favorite(table, k)
    ELSE unique_shopping_cart(table, k)

\* A pre-check that looks for a second row.
Exists_second(table, k) == table[k] > 1

\* model.objects.filter(user=user, recipe=recipe).exists()
Exists(table, k) == table[k] > 0

\* A delete that removes nothing.
delete_nothing(table, k) == table

\* obj.delete(): every row of the queryset goes.
delete(table, k) == [table EXCEPT ![k] = 0]

\* A comparison that never recognises the caller.
is_self_never(user, author) == FALSE

\* user == author
is_self(user, author) == user = author

\* Subscribe.objects.filter(user=user, author=author).exists()
subscription_exists(rows, k) == \E i \in DOMAIN rows : rows[i] = k

\* get_object_or_404(Recipe, pk=pk) finds a row
RecipeFound(pk) == pk \in DOMAIN Recipe

SetJoin(model, table) ==
    /\ Favorite' = IF model = "Favorite" THEN table ELSE Favorite
    /\ ShoppingCart' = IF model = "ShoppingCart" THEN table ELSE ShoppingCart

\* -------------------------------------- RecipeViewSet.add_to / delete_from
\* add_to up to the existence pre-check.
add_to(w, model, user, pk) ==
    /\ req[w].pc = "idle"
    /\ UNCHANGED <<recipeTables, joinTables, tx>>
    /\ IF ~RecipeFound(pk)
       THEN /\ response' = Resp("add", HTTP_400_BAD_REQUEST, "recipe_not_found")
            /\ UNCHANGED req
       ELSE IF Exists(JoinTable(model), <<user, pk>>)
       THEN /\ response' = Resp("add", HTTP_400_BAD_REQUEST, "already_added")
            /\ UNCHANGED req
       ELSE /\ req' = [req EXCEPT ![w] = [Idle EXCEPT !.pc = "add_create",
                           !.model = model, !.user = user, !.pk = pk]]
            /\ response' = NoResponse

\* model.objects.create(user=user, recipe=recipe) and the 201 response.
add_to_create(w) ==
    /\ req[w].pc = "add_create"
    /\ LET model == req[w].model
           k == <<req[w].user, req[w].pk>>
           table == JoinTable(model)
       IN IF JoinUnique(model, table, k)
          THEN /\ SetJoin(model, [table EXCEPT ![k] = @ + 1])
               /\ response' = Resp("add", HTTP_201_CREATED, "")
          ELSE /\ UNCHANGED <<Favorite, ShoppingCart>>
               /\ response' = Fault("add", "IntegrityError")
    /\ req' = [req EXCEPT ![w] = Idle]
    /\ UNCHANGED <<recipeTables, Subscribe, ShortLink, tx>>

\* delete_from up to obj.exists().
delete_from(w, model, user, pk) ==
    /\ req[w].pc = "idle"
    /\ UNCHANGED <<recipeTables, joinTables, tx>>
    /\ IF ~RecipeFound(pk)
       THEN /\ response' = Resp("delete", HTTP_404_NOT_FOUND, "Http404")
            /\ UNCHANGED req
       ELSE IF Exists(JoinTable(model), <<user, pk>>)
       THEN /\ req' = [req EXCEPT ![w] = [Idle EXCEPT !.pc = "delete_delete",
                           !.model = model, !.user = user, !.pk = pk]]
            /\ response' = NoResponse
       ELSE /\ response' = Resp("delete", HTTP_400_BAD_REQUEST, "already_removed")
            /\ UNCHANGED req

\* obj.delete() and the 204 response.
delete_from_delete(w) ==
    /\ req[w].pc = "delete_delete"
    /\ LET model == req[w].model
           k == <<req[w].user, req[w].pk>>
       IN SetJoin(model, delete(JoinTable(model), k))
    /\ response' = Resp("delete", HTTP_204_NO_CONTENT, "")
    /\ req' = [req EXCEPT ![w] = Idle]
    /\ UNCHANGED <<recipeTables, Subscribe, ShortLink, tx>>

\* ------------------------------------------ CustomUserViewSet.subscribe
\* POST up to the two pre-checks.
subscribe_post(w, user, author) ==
    /\ req[w].pc = "idle"
    /\ UNCHANGED <<recipeTables, joinTables, tx>>
    /\ IF subscription_exists(Subscribe, <<user, author>>)
       THEN /\ response' = Resp("subscribe", HTTP_400_BAD_REQUEST,
                                "already_subscribed")
            /\ UNCHANGED req
       ELSE IF is_self(user, author)
       THEN /\ response' = Resp("subscribe", HTTP_400_BAD_REQUEST,
                                "self_subscription")
            /\ UNCHANGED req
       ELSE /\ req' = [req EXCEPT ![w] = [Idle EXCEPT !.pc = "subscribe_create",
                           !.user = user, !.pk = author]]
            /\ response' = NoResponse

\* Subscribe.objects.create(user=user, author=author) and the 201 response.
subscribe_create(w) ==
    /\ req[w].pc = "subscribe_create"
    /\ LET k == <<req[w].user, req[w].pk>>
       IN IF unique_subscription(Subscribe, k)
          THEN /\ Subscribe' = Append(Subscribe, k)
               /\ response' = Resp("subscribe", HTTP_201_CREATED, "")
          ELSE /\ UNCHANGED Subscribe
               /\ response' = Fault("subscribe", "IntegrityError")
    /\ req' = [req EXCEPT ![w] = Idle]
    /\ UNCHANGED <<recipeTables, Favorite, ShoppingCart, ShortLink, tx>>

\* DELETE up to subscription.exists().
subscribe_delete(w, user, author) ==
    /\ req[w].pc = "idle"
    /\ UNCHANGED <<recipeTables, joinTables, tx>>
    /\ IF subscription_exists(Subscribe, <<user, author>>)
       THEN /\ req' = [req EXCEPT ![w] = [Idle EXCEPT !.pc = "subscribe_remove",
                           !.user = user, !.pk = author]]
            /\ response' = NoResponse
       ELSE /\ response' = Resp("unsubscribe", HTTP_400_BAD_REQUEST,
                                "not_subscribed")
            /\ UNCHANGED req

\* subscription.delete() and the 204 response.
subscribe_remove(w) ==
    /\ req[w].pc = "subscribe_remove"
    /\ Subscribe' = Without(Subscribe, <<req[w].user, req[w].pk>>)
    /\ response' = Resp("unsubscribe", HTTP_204_NO_CONTENT, "")
    /\ req' = [req EXCEPT ![w] = Idle]
    /\ UNCHANGED <<recipeTables, Favorite, ShoppingCart, ShortLink, tx>>

\* --------------------------------------- CustomUserViewSet.subscriptions
\* The Subscribe rows of a follower, in ascending id order.
SubscribeRowsOf(user) ==
    LET mine(row) == row[1] = user IN SelectSeq(Subscribe, mine)

\* User.objects.filter(subscribing__user=user): one User per matching
\* Subscribe row.  The queryset is a User queryset and User.Meta declares no
\* ordering, so the data store may return the rows in any order.
follows(user) ==
    LET rows == SubscribeRowsOf(user)
        n == Len(rows)
    IN {[i \in 1..n |-> rows[p[i]][2]] : p \in Permutations(1..n)}

subscriptions(w, user) ==
    /\ req[w].pc = "idle"
    /\ \E page \in follows(user) :
           response' = [op |-> "subscriptions", status |-> HTTP_200_OK,
                        error |-> "", body |-> <<user, page>>]
    /\ UNCHANGED <<recipeTables, joinTables, tx, req>>

\* ------------------------------------------------ RecipeSerializer.validate
Has(data, field) == field \in data.fields

\* Field-level validation, which runs before validate(): a full write (POST,
\* PUT) requires every field, a partial one (PATCH) skips the absent ones;
\* cooking_time carries MinValueValidator(1).
field_errors(data, partial) ==
    \/ ~partial /\ data.fields # {"ingredients", "tags", "cooking_time"}
    \/ Has(data, "cooking_time") /\ data.cooking_time < 1

HasDuplicates(s) == Len(s) > Cardinality(Range(s))

\* validate(data): "ok", the ValidationError it raises, or the KeyError of
\* data['cooking_time'] when the body carries no cooking_time.
validate(data) ==
    IF ~Has(data, "ingredients") \/ data.ingredients = <<>>
        THEN "INGREDIENTS_FIELD_EMPTY"
    ELSE IF ~Has(data, "tags") \/ data.tags = <<>>
        THEN "TAGS_FIELD_EMPTY"
    ELSE IF ~Has(data, "cooking_time")
        THEN "KeyError"
    ELSE IF data.cooking_time < COOKING_TIME_MIN_VALUE
        THEN "COOKING_TIME_MIN_ERROR"
    ELSE IF Len(data.tags) = 0
        THEN "TAGS_EMPTY_ERROR"
    ELSE IF HasDuplicates(data.tags)
        THEN "TAGS_UNIQUE_ERROR"
    ELSE IF Len(data.ingredients) = 0
        THEN "INGREDIENTS_EMPTY_ERROR"
    ELSE IF HasDuplicates([i \in DOMAIN data.ingredients |->
                              data.ingredients[i].ingredient])
        THEN "INGREDIENTS_UNIQUE_ERROR"
    ELSE "ok"

\* serializer.is_valid(raise_exception=True): the response that ends the
\* request, or "ok".
is_valid(op, data, partial) ==
    IF field_errors(data, partial)
        THEN Resp(op, HTTP_400_BAD_REQUEST, "ValidationError")
    ELSE IF validate(data) = "KeyError"
        THEN Fault(op, "KeyError")
    ELSE IF validate(data) # "ok"
        THEN Resp(op, HTTP_400_BAD_REQUEST, "ValidationError")
    ELSE Resp(op, 0, "ok")

\* ------------------------------------------------------ the recipe tables
committed == [open |-> FALSE, Recipe |-> Recipe, RecipeTags |-> RecipeTags,
              IngredientInRecipe |-> IngredientInRecipe]

SetCommitted(t) ==
    /\ Recipe' = t.Recipe
    /\ RecipeTags' = t.RecipeTags
    /\ IngredientInRecipe' = t.IngredientInRecipe

\* Every statement commits on its own.
transaction_autocommit(before, working) == working

\* @transaction.atomic: what the other sessions see of a write made inside
\* the open transaction, and what a rollback leaves: the committed rows.
transaction_atomic(before, working) == before

\* A statement of the open transaction.
Write(working) ==
    /\ tx' = [working EXCEPT !.open = TRUE]
    /\ SetCommitted(transaction_atomic(committed, working))

\* The transaction ends: its rows become the committed ones.
Commit(working) ==
    /\ tx' = NoTx
    /\ SetCommitted(working)

\* An exception leaves the atomic block.
Rollback ==
    /\ SetCommitted(transaction_atomic(committed, tx))
    /\ tx' = NoTx

\* recipe.tags.set(tags)
tags_set(assoc, recipe, tags) ==
    {a \in assoc : a[1] # recipe} \cup {<<recipe, t>> : t \in Range(tags)}

\* An update that keeps the old line items.
delete_ingredients_kept(items, recipe) == items

\* IngredientInRecipe.objects.filter(recipe=instance).delete()
delete_ingredients(items, recipe) ==
    [k \in DOMAIN items |-> IF k[1] = recipe THEN 0 ELSE items[k]]

\* Recipe.pub_date, DateTimeField(auto_now=True): every save of a row stamps
\* it with the current time.  A timestamp is kept as its rank among the
\* timestamps of the table (1 is the oldest), so the row saved last holds the
\* highest rank and the rows that were newer than it move down by one.
auto_now(rows, pk) ==
    [i \in DOMAIN rows |->
        IF i = pk THEN [rows[i] EXCEPT !.pub_date = Len(rows)]
        ELSE IF rows[i].pub_date > rows[pk].pub_date
             THEN [rows[i] EXCEPT !.pub_date = @ - 1]
        ELSE rows[i]]

\* The rows bulk_create inserts, one per entry of the list.
create_ingredients(items, recipe, ingredients) ==
    [k \in DOMAIN items |->
        items[k] + Cardinality({i \in DOMAIN ingredients :
            k = <<recipe, ingredients[i].ingredient, ingredients[i].amount>>})]

\* A serializer whose author field is writable.
validated_data_writable(data) == data

\* author = CustomUserSerializer(read_only=True): the validated data never
\* carry the author value of the body.
validated_data(data) == [data EXCEPT !.author = 0]

\* IsAuthorOrReadOnly | IsAdminOrReadOnly on a write to a stored recipe.
has_object_permission(user, pk) ==
    Recipe[pk].author = user \/ user \in Admins

\* ---------------------------------- RecipeSerializer.create (POST /recipes/)
\* The request up to the entry of the atomic block.
recipe_create(w, user, data) ==
    /\ req[w].pc = "idle"
    /\ LET r == is_valid("create", data, FALSE)
       IN IF r.error # "ok"
          THEN /\ response' = r
               /\ UNCHANGED <<req, tx>>
          ELSE /\ ~tx.open
               /\ Len(Recipe) < MaxRecipes
               /\ tx' = [committed EXCEPT !.open = TRUE]
               /\ req' = [req EXCEPT ![w] = [Idle EXCEPT !.pc = "create_recipe",
                              !.user = user, !.data = validated_data(data)]]
               /\ response' = NoResponse
    /\ UNCHANGED <<recipeTables, joinTables>>

\* Recipe.objects.create(**validated_data), with author=request.user
create_recipe(w) ==
    /\ req[w].pc = "create_recipe"
    /\ Write([tx EXCEPT !.Recipe = Append(@,
                 [author |-> req[w].user,
                  cooking_time |-> req[w].data.cooking_time,
                  pub_date |-> Len(tx.Recipe) + 1])])
    /\ req' = [req EXCEPT ![w].pc = "create_tags", ![w].pk = Len(tx.Recipe) + 1]
    /\ response' = NoResponse
    /\ UNCHANGED joinTables

\* recipe.tags.set(tags)
create_tags(w) ==
    /\ req[w].pc = "create_tags"
    /\ Write([tx EXCEPT !.RecipeTags = tags_set(@, req[w].pk, req[w].data.tags)])
    /\ req' = [req EXCEPT ![w].pc = "create_ingredients"]
    /\ response' = NoResponse
    /\ UNCHANGED joinTables

\* self.create_ingredients(recipe, ingredients), then the block commits.
create_commit(w) ==
    /\ req[w].pc = "create_ingredients"
    /\ LET items == create_ingredients(tx.IngredientInRecipe, req[w].pk,
                                       req[w].data.ingredients)
       IN IF unique_ingredient_in_recipe(items)
          THEN /\ Commit([tx EXCEPT !.IngredientInRecipe = items])
               /\ response' = [Resp("create", HTTP_201_CREATED, "") EXCEPT
                                   !.body = <<req[w].user, req[w].pk>>]
          ELSE /\ Rollback
               /\ response' = Fault("create", "IntegrityError")
    /\ req' = [req EXCEPT ![w] = Idle]
    /\ UNCHANGED joinTables

\* ------------------------- RecipeSerializer.update (PUT/PATCH /recipes/pk/)
recipe_update(w, user, pk, data, partial) ==
    /\ req[w].pc = "idle"
    /\ UNCHANGED <<recipeTables, joinTables>>
    /\ IF ~RecipeFound(pk)
       THEN /\ response' = Resp("update", HTTP_404_NOT_FOUND, "Http404")
            /\ UNCHANGED <<req, tx>>
       ELSE IF ~has_object_permission(user, pk)
       THEN /\ response' = Resp("update", 403, "PermissionDenied")
            /\ UNCHANGED <<req, tx>>
       ELSE LET r == is_valid("update", data, partial)
            IN IF r.error # "ok"
               THEN /\ response' = r
                    /\ UNCHANGED <<req, tx>>
               ELSE /\ ~tx.open
                    /\ tx' = [committed EXCEPT !.open = TRUE]
                    /\ req' = [req EXCEPT ![w] = [Idle EXCEPT
                                   !.pc = "update_delete", !.user = user,
                                   !.pk = pk, !.data = validated_data(data)]]
                    /\ response' = NoResponse

\* IngredientInRecipe.objects.filter(recipe=instance).delete()
update_delete(w) ==
    /\ req[w].pc = "update_delete"
    /\ Write([tx EXCEPT !.IngredientInRecipe = delete_ingredients(@, req[w].pk)])
    /\ req' = [req EXCEPT ![w].pc = "update_tags"]
    /\ response' = NoResponse
    /\ UNCHANGED joinTables

\* instance.tags.set(tags)
update_tags(w) ==
    /\ req[w].pc = "update_tags"
    /\ Write([tx EXCEPT !.RecipeTags = tags_set(@, req[w].pk, req[w].data.tags)])
    /\ req' = [req EXCEPT ![w].pc = "update_ingredients"]
    /\ response' = NoResponse
    /\ UNCHANGED joinTables

\* self.create_ingredients(instance, ingredients)
update_ingredients(w) ==
    /\ req[w].pc = "update_ingredients"
    /\ LET items == create_ingredients(tx.IngredientInRecipe, req[w].pk,
                                       req[w].data.ingredients)
       IN IF unique_ingredient_in_recipe(items)
          THEN /\ Write([tx EXCEPT !.IngredientInRecipe = items])
               /\ req' = [req EXCEPT ![w].pc = "update_save"]
               /\ response' = NoResponse
          ELSE /\ Rollback
               /\ req' = [req EXCEPT ![w] = Idle]
               /\ response' = Fault("update", "IntegrityError")
    /\ UNCHANGED joinTables

\* super().update(instance, validated_data): the remaining fields are set and
\* the row is saved; then the block commits.
update_commit(w) ==
    /\ req[w].pc = "update_save"
    /\ Commit([tx EXCEPT !.Recipe =
                  auto_now([@ EXCEPT
                      ![req[w].pk].cooking_time = req[w].data.cooking_time,
                      ![req[w].pk].author =
                          IF req[w].data.author # 0 THEN req[w].data.author
                          ELSE @], req[w].pk)])
    /\ response' = [Resp("update", HTTP_200_OK, "") EXCEPT
                        !.body = <<req[w].user, req[w].pk>>]
    /\ req' = [req EXCEPT ![w] = Idle]
    /\ UNCHANGED joinTables

\* ------------------------------------------ RecipeViewSet.list (GET /recipes/)
\* Recipe.Meta.ordering = ['-pub_date']: the ids of the rows, the latest
\* pub_date first.
order_by_pub_date(rows) ==
    [i \in 1..Len(rows) |->
        CHOOSE pk \in DOMAIN rows : rows[pk].pub_date = Len(rows) + 1 - i]

recipe_list(w) ==
    /\ req[w].pc = "idle"
    /\ response' = [op |-> "list", status |-> HTTP_200_OK, error |-> "",
                    body |-> order_by_pub_date(Recipe)]
    /\ UNCHANGED <<recipeTables, joinTables, tx, req>>

InTransaction(w) ==
    req[w].pc \in {"create_recipe", "create_tags", "create_ingredients",
                   "update_delete", "update_tags", "update_ingredients",
                   "update_save"}

\* The data store fails the next statement of the open transaction: the
\* exception leaves the atomic block and the request ends with a 500.
database_error(w) ==
    /\ InTransaction(w)
    /\ Rollback
    /\ response' = Fault(IF req[w].pc \in {"create_recipe", "create_tags",
                                           "create_ingredients"}
                        THEN "create" ELSE "update", "DatabaseError")
    /\ req' = [req EXCEPT ![w] = Idle]
    /\ UNCHANGED joinTables

\* ----------------------------------- RecipeViewSet.download_shopping_cart
\* The Ingredient table.  The API only reads it.  Ingredients 1 and 3 carry the
\* same name and unit: no constraint forbids it.
Ingredient ==
    [i \in Ingredients |->
        IF i = 2 THEN [name |-> "Sugar", measurement_unit |-> "g"]
        ELSE [name |-> "Flour", measurement_unit |-> "g"]]

\* user.shopping_cart.exists()
cart_exists(user) == \E r \in RecipeIds : ShoppingCart[<<user, r>>] > 0

\* IngredientInRecipe.objects.filter(recipe__shopping_cart__user=user): the
\* join yields a line item once per ShoppingCart row of the user for its
\* recipe.  The number of joined rows per line item:
filter_cart(user) ==
    [k \in DOMAIN IngredientInRecipe |->
        IngredientInRecipe[k] * ShoppingCart[<<user, k[1]>>]]

\* .values('ingredient__name', 'ingredient__measurement_unit'): the group key
\* of a joined row.
values(k) == <<Ingredient[k[2]].name, Ingredient[k[2]].measurement_unit>>

\* An aggregate that counts the rows of the group.
Count(rows, g) ==
    SumOver([k \in DOMAIN rows |-> IF values(k) = g THEN rows[k] ELSE 0],
            DOMAIN rows)

\* .annotate(quantity=Sum('amount')): the amounts of the rows of group g.
Sum(rows, g) ==
    SumOver([k \in DOMAIN rows |-> IF values(k) = g THEN rows[k] * k[3] ELSE 0],
            DOMAIN rows)

\* The result rows of the query, one per group.
annotate(rows) ==
    {[name |-> g[1], measurement_unit |-> g[2], quantity |-> Sum(rows, g)] :
        g \in {values(k) : k \in {j \in DOMAIN rows : rows[j] > 0}}}

\* The query has no order_by and IngredientInRecipe.Meta declares no ordering:
\* the data store returns the groups in an order of its choosing.
Orderings(S) == {s \in [1..Cardinality(S) -> S] : Range(s) = S}

\* download_shopping_cart up to user.shopping_cart.exists().
download_shopping_cart(w, user) ==
    /\ req[w].pc = "idle"
    /\ UNCHANGED <<recipeTables, joinTables, tx>>
    /\ IF ~cart_exists(user)
       THEN /\ response' = Resp("download", HTTP_400_BAD_REQUEST, "empty_cart")
            /\ UNCHANGED req
       ELSE /\ req' = [req EXCEPT ![w] = [Idle EXCEPT !.pc = "download_list",
                           !.user = user]]
            /\ response' = NoResponse

\* The aggregation query and the text of its rows, in the order they come.
download_list(w) ==
    /\ req[w].pc = "download_list"
    /\ \E shopping_list \in Orderings(annotate(filter_cart(req[w].user))) :
           response' = [op |-> "download", status |-> HTTP_200_OK,
                        error |-> "", body |-> <<req[w].user, shopping_list>>]
    /\ req' = [req EXCEPT ![w] = Idle]
    /\ UNCHANGED <<recipeTables, joinTables, tx>>

\* ------------------------------------------------ GetRecipeShortLink.get
\* recipe.get_absolute_url(): reverse('recipe-detail', kwargs={'pk': pk})
get_absolute_url(pk) == <<"api", "recipes", pk>>

\* str(os.environ['DOMEN']) + 's/' + the four sampled characters
short_url_of(token) == <<"s", token>>

\* ShortLink.short_link, unique=True: may a row with this short_link be
\* inserted?
unique_short_link(rows, short_link) ==
    \A row \in rows : row.short_link # short_link

\* The rows get(original_url=...) matches.  original_url carries no
\* constraint.
get(rows, original_url) == {row \in rows : row.original_url = original_url}

LinkResponse(pk, row) ==
    [op |-> "get_link", status |-> HTTP_200_OK, error |-> "",
     body |-> <<pk, row.short_link>>]

\* get_object_or_404, the sampled token and the lookup of get_or_create.
get_link(w, recipe_id, token) ==
    /\ req[w].pc = "idle"
    /\ UNCHANGED <<recipeTables, joinTables, tx>>
    /\ IF ~RecipeFound(recipe_id)
       THEN /\ response' = Resp("get_link", HTTP_404_NOT_FOUND, "Http404")
            /\ UNCHANGED req
       ELSE LET found == get(ShortLink, get_absolute_url(recipe_id))
            IN IF Cardinality(found) > 1
               THEN /\ response' = Fault("get_link", "MultipleObjectsReturned")
                    /\ UNCHANGED req
               ELSE IF Cardinality(found) = 1
               THEN /\ response' = LinkResponse(recipe_id,
                                                CHOOSE row \in found : TRUE)
                    /\ UNCHANGED req
               ELSE /\ req' = [req EXCEPT ![w] = [Idle EXCEPT
                                   !.pc = "link_create", !.pk = recipe_id,
                                   !.short_url = short_url_of(token)]]
                    /\ response' = NoResponse

\* get_or_create after DoesNotExist: create(original_url, short_link).
link_create(w) ==
    /\ req[w].pc = "link_create"
    /\ LET row == [original_url |-> get_absolute_url(req[w].pk),
                   short_link |-> req[w].short_url]
       IN IF unique_short_link(ShortLink, row.short_link)
          THEN /\ ShortLink' = ShortLink \cup {row}
               /\ response' = LinkResponse(req[w].pk, row)
               /\ req' = [req EXCEPT ![w] = Idle]
          ELSE /\ UNCHANGED ShortLink
               /\ response' = NoResponse
               /\ req' = [req EXCEPT ![w].pc = "link_retry"]
    /\ UNCHANGED <<recipeTables, Favorite, ShoppingCart, Subscribe, tx>>

\* get_or_create after IntegrityError: the lookup once more; without a row
\* the IntegrityError is raised again, and nothing catches it.
link_retry(w) ==
    /\ req[w].pc = "link_retry"
    /\ LET found == get(ShortLink, get_absolute_url(req[w].pk))
       IN response' =
              IF Cardinality(found) = 1
                  THEN LinkResponse(req[w].pk, CHOOSE row \in found : TRUE)
              ELSE IF found = {}
                  THEN Fault("get_link", "IntegrityError")
              ELSE Fault("get_link", "MultipleObjectsReturned")
    /\ req' = [req EXCEPT ![w] = Idle]
    /\ UNCHANGED <<recipeTables, joinTables, tx>>

\* ------------------------------------------------- redirect_to_full_link
\* link_obj.original_url.replace('/api', '', 1)[:-1]
full_link(original_url) == Tail(original_url)

\* ShortLink.objects.get(short_link=...) and the redirect, or the 404 of
\* DoesNotExist.
redirect_to_full_link(w, token) ==
    /\ req[w].pc = "idle"
    /\ LET found == {row \in ShortLink : row.short_link = short_url_of(token)}
       IN response' =
              IF found = {}
                  THEN Resp("redirect", HTTP_404_NOT_FOUND, "link_not_found")
              ELSE [op |-> "redirect", status |-> 302, error |-> "",
                    body |-> full_link((CHOOSE row \in found : TRUE).original_url)]
    /\ UNCHANGED <<recipeTables, joinTables, tx, req>>

\* ------------------------------------------------------------ request bodies
\* The entries of the ingredient lists of the bodies: ingredients 1 and 2.
IngredientEntries == [ingredient : {1, 2}, amount : Amounts]

Payloads ==
    {d \in [fields : SUBSET {"ingredients", "tags", "cooking_time"},
            ingredients : SeqsUpTo(IngredientEntries, 2),
            tags : SeqsUpTo(Tags, 2),
            cooking_time : CookingTimes,
            author : {0}] :
        /\ ~Has(d, "ingredients") => d.ingredients = <<>>
        /\ ~Has(d, "tags") => d.tags = <<>>
        /\ ~Has(d, "cooking_time") => d.cooking_time = 0}

\* The bodies of the composed specification: one tag, amount 1, every field
\* present.
CorePayloads ==
    {d \in Payloads :
        /\ d.fields = {"ingredients", "tags", "cooking_time"}
        /\ d.tags = <<1>>
        /\ d.cooking_time = 1
        /\ d.ingredients \in {<<[ingredient |-> 1, amount |-> 1]>>,
                              <<[ingredient |-> 1, amount |-> 1],
                                [ingredient |-> 1, amount |-> 1]>>,
                              <<[ingredient |-> 1, amount |-> 1],
                                [ingredient |-> 2, amount |-> 1]>>}}

\* ------------------------------------------------------------ specifications
Init ==
    /\ Recipe = <<>>
    /\ RecipeTags = {}
    /\ IngredientInRecipe = EmptyItems
    /\ Favorite = EmptyJoin
    /\ ShoppingCart = EmptyJoin
    /\ Subscribe = <<>>
    /\ ShortLink = {}
    /\ req = [w \in Workers |-> Idle]
    /\ tx = NoTx
    /\ response = NoResponse

\* The statements of a recipe write in progress.
RecipeSteps(w) ==
    \/ create_recipe(w)
    \/ create_tags(w)
    \/ create_commit(w)
    \/ update_delete(w)
    \/ update_tags(w)
    \/ update_ingredients(w)
    \/ update_commit(w)
    \/ database_error(w)

JoinSteps(w) ==
    \/ add_to_create(w)
    \/ delete_from_delete(w)

LinkSteps(w) ==
    \/ link_create(w)
    \/ link_retry(w)

SubscribeSteps(w) ==
    \/ subscribe_create(w)
    \/ subscribe_remove(w)

\* The handlers of the recipes, the join tables and the subscriptions, on one
\* contended key per table: user 1, recipe 1, author 2.
Next ==
    \E w \in Workers :
        \/ \E data \in CorePayloads : recipe_create(w, 1, data)
        \/ \E data \in CorePayloads : recipe_update(w, 1, 1, data, FALSE)
        \/ RecipeSteps(w)
        \/ \E model \in Models : add_to(w, model, 1, 1)
        \/ \E model \in Models : delete_from(w, model, 1, 1)
        \/ JoinSteps(w)
        \/ subscribe_post(w, 1, 2)
        \/ subscribe_delete(w, 1, 2)
        \/ SubscribeSteps(w)
        \/ subscriptions(w, 1)
        \/ recipe_list(w)
        \/ download_shopping_cart(w, 1)
        \/ download_list(w)

Spec == Init /\ [][Next]_vars

\* The recipe write pipeline alone, over every request body, on the first
\* recipe.  The data store runs one write transaction at a time, so one worker
\* serves the writes.
NextRecipe ==
    \E w \in {"w1"} :
        \/ \E user \in Clients, data \in Payloads :
               /\ Recipe = <<>> \/ is_valid("create", data, FALSE).error # "ok"
               /\ recipe_create(w, user, data)
        \/ \E user \in Clients, pk \in RequestIds, data \in Payloads,
              partial \in BOOLEAN :
               recipe_update(w, user, pk, data, partial)
        \/ RecipeSteps(w)

SpecRecipe == Init /\ [][NextRecipe]_vars

\* A body with every field, a cooking time of at least 1, one or more distinct
\* tags and one or more pairs of distinct ingredients.
WellFormed(data) ==
    /\ data.fields = {"ingredients", "tags", "cooking_time"}
    /\ data.cooking_time >= 1
    /\ data.tags # <<>> /\ ~HasDuplicates(data.tags)
    /\ data.ingredients # <<>>
    /\ ~HasDuplicates([i \in DOMAIN data.ingredients |->
                          data.ingredients[i].ingredient])

WellFormedPayloads == {d \in Payloads : WellFormed(d)}

\* The recipe write pipeline over the well-formed bodies, on the first recipe.
NextWrite ==
    \E w \in {"w1"} :
        \/ \E user \in Clients, data \in WellFormedPayloads :
               Recipe = <<>> /\ recipe_create(w, user, data)
        \/ \E user \in Clients, pk \in RequestIds, data \in WellFormedPayloads :
               recipe_update(w, user, pk, data, FALSE)
        \/ RecipeSteps(w)

SpecWrite == Init /\ [][NextWrite]_vars

\* Favorite and ShoppingCart alone: recipe 1 has been created, the other ids
\* do not resolve.
InitJoin ==
    /\ Recipe = <<[author |-> 1, cooking_time |-> 1, pub_date |-> 1]>>
    /\ RecipeTags = {<<1, 1>>}
    /\ IngredientInRecipe = [EmptyItems EXCEPT ![<<1, 1, 1>>] = 1]
    /\ Favorite = EmptyJoin
    /\ ShoppingCart = EmptyJoin
    /\ Subscribe = <<>>
    /\ ShortLink = {}
    /\ req = [w \in Workers |-> Idle]
    /\ tx = NoTx
    /\ response = NoResponse

NextJoin ==
    \E w \in Workers :
        \/ \E model \in Models, user \in Users, pk \in RequestIds :
               add_to(w, model, user, pk)
        \/ \E model \in Models, user \in Users, pk \in RequestIds :
               delete_from(w, model, user, pk)
        \/ JoinSteps(w)

SpecJoin == InitJoin /\ [][NextJoin]_vars

\* The subscriptions alone.
NextSubscribe ==
    \E w \in Workers :
        \/ \E user \in Clients, author \in Users : subscribe_post(w, user, author)
        \/ \E user \in Clients, author \in Users : subscribe_delete(w, user, author)
        \/ SubscribeSteps(w)
        \/ \E user \in Clients : subscriptions(w, user)

SpecSubscribe == Init /\ [][NextSubscribe]_vars

\* The shopping list alone, over stored recipes and carts: every recipe id
\* holds a recipe whose line items are one of CartItemLists, and every user's
\* cart holds any of the recipes.
CartItemLists ==
    {<<[ingredient |-> 1, amount |-> 1]>>,
     <<[ingredient |-> 1, amount |-> 2], [ingredient |-> 2, amount |-> 1]>>,
     <<[ingredient |-> 3, amount |-> 2]>>,
     <<[ingredient |-> 2, amount |-> 1], [ingredient |-> 3, amount |-> 1]>>}

InitCart ==
    /\ Recipe = [r \in RecipeIds |->
                    [author |-> 1, cooking_time |-> 1, pub_date |-> r]]
    /\ RecipeTags = {<<r, 1>> : r \in RecipeIds}
    /\ \E lists \in [RecipeIds -> CartItemLists] :
           IngredientInRecipe =
               [k \in DOMAIN EmptyItems |->
                   Cardinality({i \in DOMAIN lists[k[1]] :
                       /\ lists[k[1]][i].ingredient = k[2]
                       /\ lists[k[1]][i].amount = k[3]})]
    /\ Favorite = EmptyJoin
    /\ ShoppingCart \in [Users \X RecipeIds -> {0, 1}]
    /\ Subscribe = <<>>
    /\ ShortLink = {}
    /\ req = [w \in Workers |-> Idle]
    /\ tx = NoTx
    /\ response = NoResponse

NextCart ==
    \E w \in {"w1"} :
        \/ \E user \in Users : download_shopping_cart(w, user)
        \/ download_list(w)

SpecCart == InitCart /\ [][NextCart]_vars

\* The short links alone: every recipe id holds a recipe, the other request
\* id does not resolve.
InitLink ==
    /\ Recipe = [r \in RecipeIds |->
                    [author |-> 1, cooking_time |-> 1, pub_date |-> r]]
    /\ RecipeTags = {<<r, 1>> : r \in RecipeIds}
    /\ IngredientInRecipe =
           [k \in DOMAIN EmptyItems |-> IF k[2] = 1 /\ k[3] = 1 THEN 1 ELSE 0]
    /\ Favorite = EmptyJoin
    /\ ShoppingCart = EmptyJoin
    /\ Subscribe = <<>>
    /\ ShortLink = {}
    /\ req = [w \in Workers |-> Idle]
    /\ tx = NoTx
    /\ response = NoResponse

\* Concurrent get-link requests.
NextLink ==
    \E w \in Workers :
        \/ \E recipe_id \in RequestIds, token \in Tokens :
               get_link(w, recipe_id, token)
        \/ LinkSteps(w)
        \/ \E token \in Tokens : redirect_to_full_link(w, token)

SpecLink == InitLink /\ [][NextLink]_vars

\* Sequential get-link requests: one worker, one request at a time.
NextLinkSeq ==
    \E w \in {"w1"} :
        \/ \E recipe_id \in RequestIds, token \in Tokens :
               get_link(w, recipe_id, token)
        \/ LinkSteps(w)
        \/ \E token \in Tokens : redirect_to_full_link(w, token)

SpecLinkSeq == InitLink /\ [][NextLinkSeq]_vars

\* The recipe writes of every account, the admin included, with bodies that
\* carry an author value or none.
AuthorPayloads ==
    [fields : {{"ingredients", "tags", "cooking_time"}},
     ingredients : {<<[ingredient |-> 1, amount |-> 1]>>},
     tags : {<<1>>},
     cooking_time : {1},
     author : {0} \cup Users]

NextAuthor ==
    \E w \in {"w1"} :
        \/ \E user \in Users, data \in AuthorPayloads :
               recipe_create(w, user, data)
        \/ \E user \in Users, pk \in RequestIds, data \in AuthorPayloads :
               recipe_update(w, user, pk, data, FALSE)
        \/ RecipeSteps(w)
        \/ recipe_list(w)

SpecAuthor == Init /\ [][NextAuthor]_vars

\* ==================================================================== claims
\* The line items of a recipe, as rows per (ingredient, amount).
ItemsOf(items, recipe) ==
    [k \in Ingredients \X Amounts |-> items[<<recipe, k[1], k[2]>>]]

\* The rows a list of (ingredient, amount) pairs describes.
RowsOf(ingredients) ==
    [k \in Ingredients \X Amounts |->
        Cardinality({i \in DOMAIN ingredients :
            ingredients[i].ingredient = k[1] /\ ingredients[i].amount = k[2]})]

TagsOf(assoc, recipe) == {a[2] : a \in {b \in assoc : b[1] = recipe}}

\* Worker w's recipe write commits in this step.
Commits(w) ==
    /\ req[w].pc \in {"create_ingredients", "update_save"}
    /\ req'[w].pc = "idle"
    /\ response'.status \in {HTTP_200_OK, HTTP_201_CREATED}

\* C1: when a recipe create or update succeeds, the recipe's stored line items
\* are exactly the (ingredient, amount) pairs of the request body, one row
\* each, and its tag associations are exactly the tags of the body; nothing of
\* the previous version survives.
C1_WriteStoresPayload ==
    [][\A w \in Workers : Commits(w) =>
          /\ ItemsOf(IngredientInRecipe', req[w].pk) = RowsOf(req[w].data.ingredients)
          /\ SumOver(ItemsOf(IngredientInRecipe', req[w].pk), Ingredients \X Amounts)
                 = Len(req[w].data.ingredients)
          /\ TagsOf(RecipeTags', req[w].pk) = Range(req[w].data.tags)
          /\ Cardinality(TagsOf(RecipeTags', req[w].pk)) = Len(req[w].data.tags)]_vars

\* An update has committed and left recipe 1 with the single line item
\* (ingredient 2, amount 2) and the single tag 2.
C1_Witness ==
    /\ response.op = "update" /\ response.status = HTTP_200_OK
    /\ Len(Recipe) >= 1
    /\ ItemsOf(IngredientInRecipe, 1) = RowsOf(<<[ingredient |-> 2, amount |-> 2]>>)
    /\ TagsOf(RecipeTags, 1) = {2}

\* The defects C2 lists.
Defective(data) ==
    \/ ~Has(data, "ingredients") \/ data.ingredients = <<>>
    \/ ~Has(data, "tags") \/ data.tags = <<>>
    \/ Has(data, "cooking_time") /\ data.cooking_time < 1
    \/ HasDuplicates(data.tags)
    \/ HasDuplicates([i \in DOMAIN data.ingredients |->
                         data.ingredients[i].ingredient])

DefectivePayloads == {d \in Payloads : Defective(d)}

\* The step may be worker w receiving a write request for a recipe it may
\* write: w is idle, either no worker's position changes or w leaves the idle
\* position, and the response is not that of an unknown id or a refused caller.
Receives(w) ==
    /\ req[w].pc = "idle"
    /\ req' = req \/ req'[w].pc # "idle"
    /\ response'.status \notin {403, HTTP_404_NOT_FOUND}

Rejected(op) ==
    /\ response' = Resp(op, HTTP_400_BAD_REQUEST, "ValidationError")
    /\ UNCHANGED <<recipeTables, req, tx>>

\* C2: a create or update whose body has an empty or missing ingredient list,
\* an empty or missing tag list, a cooking time below 1, duplicate tags or
\* duplicate ingredient ids ends with a ValidationFailure, and the recipe,
\* tag-association and line-item tables are the same before and after.
C2_DefectiveRejected ==
    [][\A w \in Workers :
          (Receives(w) /\ ~Rejected("create") /\ ~Rejected("update")) =>
              \A data \in DefectivePayloads :
                  /\ \A user \in Clients : ~recipe_create(w, user, data)
                  /\ \A user \in Clients, pk \in DOMAIN Recipe,
                        partial \in BOOLEAN :
                         has_object_permission(user, pk) =>
                             ~recipe_update(w, user, pk, data, partial)]_vars

\* C3: the recipe write is atomic.  The committed recipe, tag-association and
\* line-item tables change only in the step in which a write commits; a write
\* that fails at any statement leaves them as they were when it started and
\* closes the transaction; so every committed recipe has its line items and
\* its tags.
C3_step ==
    /\ recipeTables' # recipeTables => \E w \in Workers : Commits(w)
    /\ \A w \in Workers :
           (InTransaction(w) /\ response'.status = 500
               /\ req'[w].pc = "idle")
           => recipeTables' = recipeTables /\ ~tx'.open

C3_Atomic ==
    /\ [][C3_step]_vars
    /\ [](\A r \in DOMAIN Recipe :
            /\ SumOver(ItemsOf(IngredientInRecipe, r), Ingredients \X Amounts) >= 1
            /\ TagsOf(RecipeTags, r) # {})
    /\ [](\A a \in RecipeTags : a[1] \in DOMAIN Recipe)
    /\ [](\A k \in DOMAIN IngredientInRecipe :
            IngredientInRecipe[k] > 0 => k[1] \in DOMAIN Recipe)

\* An update is between its statements: the transaction has deleted the old
\* line items of the recipe and set new tags, the committed tables still show
\* the old ones.
C3_Witness ==
    \E w \in Workers :
        /\ req[w].pc = "update_ingredients"
        /\ tx.IngredientInRecipe # IngredientInRecipe
        /\ tx.RecipeTags # RecipeTags

\* C4: Favorite and ShoppingCart alike.  An add for a pair that is present
\* ends with the 400 "already added" conflict, changes no row of either table
\* and leaves one row for the pair; the insert of an add for a pair that is
\* absent stores exactly one row for the pair, changes no other row and ends
\* with 201.
C4_step ==
    \A w \in Workers, model \in Models, user \in Users, pk \in DOMAIN Recipe :
        LET k == <<user, pk>>
            table == JoinTable(model)
            table2 == IF model = "Favorite" THEN Favorite' ELSE ShoppingCart'
        IN /\ (add_to(w, model, user, pk) /\ table[k] > 0) =>
                  /\ response' = Resp("add", HTTP_400_BAD_REQUEST, "already_added")
                  /\ UNCHANGED <<Favorite, ShoppingCart, req>>
                  /\ table[k] = 1
           /\ (add_to_create(w) /\ req[w].model = model /\ req[w].user = user
                   /\ req[w].pk = pk /\ table[k] = 0) =>
                  /\ table2 = [table EXCEPT ![k] = 1]
                  /\ JoinTable(CHOOSE m \in Models : m # model)
                         = (IF model = "Favorite" THEN ShoppingCart' ELSE Favorite')
                  /\ response' = Resp("add", HTTP_201_CREATED, "")

C4_AddConflict == [][C4_step]_vars

\* The second add of a stored pair has been refused.
C4_Witness ==
    /\ response = Resp("add", HTTP_400_BAD_REQUEST, "already_added")
    /\ \E k \in DOMAIN Favorite : Favorite[k] = 1 \/ ShoppingCart[k] = 1

\* What a remove does: with no row it ends with the given status and changes
\* nothing, with a row it deletes that row, no other, and ends with 204.
RemoveContract(status) ==
    \A w \in Workers, model \in Models, user \in Users, pk \in DOMAIN Recipe :
        LET k == <<user, pk>>
            table == JoinTable(model)
            table2 == IF model = "Favorite" THEN Favorite' ELSE ShoppingCart'
        IN /\ (delete_from(w, model, user, pk) /\ table[k] = 0) =>
                  /\ response'.op = "delete" /\ response'.status = status
                  /\ UNCHANGED <<Favorite, ShoppingCart, req>>
           /\ (delete_from_delete(w) /\ req[w].model = model /\ req[w].user = user
                   /\ req[w].pk = pk /\ table[k] > 0) =>
                  /\ table2 = [table EXCEPT ![k] = 0]
                  /\ JoinTable(CHOOSE m \in Models : m # model)
                         = (IF model = "Favorite" THEN ShoppingCart' ELSE Favorite')
                  /\ response' = Resp("delete", HTTP_204_NO_CONTENT, "")

\* C5 as claimed: a remove for an existing recipe with no (user, recipe) row
\* ends with a 404 and changes no row; with the row present it deletes exactly
\* that row and ends with 204.
C5_RemoveNotFound == [][RemoveContract(HTTP_404_NOT_FOUND)]_vars

\* C5 as amended: a remove for an existing recipe with no (user, recipe) row
\* ends with a 400 and changes no row; with the row present it deletes exactly
\* that row and ends with 204.
C5_RemoveBadRequest == [][RemoveContract(HTTP_400_BAD_REQUEST)]_vars

\* A remove of an absent pair has been refused while other rows are stored.
C5_Witness ==
    /\ response = Resp("delete", HTTP_400_BAD_REQUEST, "already_removed")
    /\ \E k \in DOMAIN Favorite : Favorite[k] = 1 \/ ShoppingCart[k] = 1

\* C6: an add for a recipe id that does not resolve ends with a 404, as the
\* remove for such an id does, and inserts no row.
C6_AddUnknownRecipe ==
    [][\A w \in Workers, model \in Models, user \in Users, pk \in RequestIds :
          (~RecipeFound(pk) /\ (add_to(w, model, user, pk)
                                   \/ delete_from(w, model, user, pk))) =>
              /\ response'.status = HTTP_404_NOT_FOUND
              /\ UNCHANGED <<Favorite, ShoppingCart, req>>]_vars

NoDuplicateRow(rows) ==
    \A i, j \in DOMAIN rows : rows[i] = rows[j] => i = j

\* C7: in every reachable state there is at most one Favorite row per
\* (user, recipe), at most one ShoppingCart row per (user, recipe), at most one
\* Subscribe row per (user, author) and at most one line item per
\* (recipe, ingredient).
C7_Unique ==
    /\ \A k \in DOMAIN Favorite : Favorite[k] <= 1
    /\ \A k \in DOMAIN ShoppingCart : ShoppingCart[k] <= 1
    /\ NoDuplicateRow(Subscribe)
    /\ \A r \in RecipeIds, i \in Ingredients :
           SumOver([a \in Amounts |-> IngredientInRecipe[<<r, i, a>>]], Amounts) <= 1

\* Two adds of the same pair raced, the constraint refused the second insert;
\* every table holds a row.
C7_Witness ==
    /\ response.error = "IntegrityError"
    /\ Favorite[<<1, 1>>] = 1
    /\ ShoppingCart[<<1, 1>>] = 1
    /\ Subscribe # <<>>
    /\ IngredientInRecipe[<<1, 1, 1>>] = 1

\* Worker w's insert meets a row another request stored after w's pre-check.
LosesRace(w) ==
    \/ /\ req[w].pc = "add_create"
       /\ JoinTable(req[w].model)[<<req[w].user, req[w].pk>>] > 0
    \/ /\ req[w].pc = "subscribe_create"
       /\ ~NoDuplicateRow(Append(Subscribe, <<req[w].user, req[w].pk>>))

\* C8: when two adds of the same key pair race, the request that loses ends
\* with the 400 conflict; the uniqueness violation is not surfaced as a fault.
C8_RaceConflict ==
    [][\A w \in Workers :
          (LosesRace(w) /\ req'[w].pc = "idle") =>
              /\ response'.status = HTTP_400_BAD_REQUEST
              /\ response'.error \in {"already_added", "already_subscribed"}]_vars

\* C9: a subscribe-add whose follower is the target author ends with a 400 and
\* inserts nothing, whatever the state; no Subscribe row has user = author.
C9_NoSelfSubscription ==
    /\ [][\A w \in Workers, user \in Users :
             subscribe_post(w, user, user) =>
                 /\ response'.op = "subscribe"
                 /\ response'.status = HTTP_400_BAD_REQUEST
                 /\ Subscribe' = Subscribe
                 /\ req' = req]_vars
    /\ [](\A i \in DOMAIN Subscribe : Subscribe[i][1] # Subscribe[i][2])

\* A self-subscription has been refused while the user follows someone.
C9_Witness ==
    /\ response = Resp("subscribe", HTTP_400_BAD_REQUEST, "self_subscription")
    /\ Subscribe # <<>>

Reverse(s) == [i \in 1..Len(s) |-> s[Len(s) + 1 - i]]

\* C10: the subscriptions list holds exactly the authors the user follows, by
\* subscription id descending: the author subscribed to last comes first.
C10_NewestFirst ==
    [][\A w \in Workers, user \in Users :
          subscriptions(w, user) =>
              LET rows == SubscribeRowsOf(user)
              IN response'.body[2] = Reverse([i \in 1..Len(rows) |-> rows[i][2]])]_vars

\* The recipes in a user's cart, and the line items of those recipes that fall
\* in the group (name, unit).
CartRecipes(user) == {r \in RecipeIds : ShoppingCart[<<user, r>>] > 0}

GroupItems(user, name, unit) ==
    {k \in DOMAIN IngredientInRecipe :
        /\ IngredientInRecipe[k] > 0
        /\ k[1] \in CartRecipes(user)
        /\ Ingredient[k[2]].name = name
        /\ Ingredient[k[2]].measurement_unit = unit}

GroupsOf(user) ==
    {g \in {<<Ingredient[i].name, Ingredient[i].measurement_unit>> :
                i \in Ingredients} : GroupItems(user, g[1], g[2]) # {}}

\* C11: the shopping list of a user has exactly one line per distinct
\* (ingredient name, measurement unit) among the line items of the recipes in
\* that user's cart, and the amount of the line is the sum of the amounts of
\* those line items over all the cart's recipes; line items of recipes outside
\* the user's cart add nothing.
C11_step ==
    \A w \in Workers :
        download_list(w) =>
            LET user == req[w].user
                lines == response'.body[2]
            IN /\ Len(lines) = Cardinality(GroupsOf(user))
               /\ \A g \in GroupsOf(user) :
                      \E i \in DOMAIN lines :
                          /\ lines[i].name = g[1]
                          /\ lines[i].measurement_unit = g[2]
                          /\ lines[i].quantity =
                                 SumOver([k \in GroupItems(user, g[1], g[2]) |->
                                             k[3] * IngredientInRecipe[k]],
                                         GroupItems(user, g[1], g[2]))

C11_ShoppingListSums == [][C11_step]_vars

\* User 1 downloads a list whose Flour line sums amount 2 of recipe 1 and
\* amount 2 of recipe 2 (ingredients 1 and 3, both Flour in g), while user 2
\* holds a cart of its own and recipe 1 also has Sugar.
C11_Witness ==
    /\ response.op = "download" /\ response.status = HTTP_200_OK
    /\ response.body[1] = 1
    /\ CartRecipes(1) = {1, 2}
    /\ CartRecipes(2) # {}
    /\ IngredientInRecipe[<<1, 1, 2>>] = 1 /\ IngredientInRecipe[<<2, 3, 2>>] = 1
    /\ \E i \in DOMAIN response.body[2] :
           response.body[2][i] =
               [name |-> "Flour", measurement_unit |-> "g", quantity |-> 4]

\* C12: the order of the lines of the shopping list is a function of the
\* stored cart, recipes and line items: whatever list a download returns, every
\* list the same download can return against the same stored contents has the
\* groups in the same order.
C12_DeterministicOrder ==
    [][\A w \in Workers :
          download_list(w) =>
              \A shopping_list \in Orderings(annotate(filter_cart(req[w].user))) :
                  response'.body[2] = shopping_list]_vars

\* Worker w's get-link request for recipe pk ends in this step.
LinkCompletes(w, pk) ==
    /\ req'[w].pc = "idle"
    /\ \/ \E token \in Tokens : get_link(w, pk, token)
       \/ /\ req[w].pk = pk
          /\ link_create(w) \/ link_retry(w)

\* C13: get-or-create of a short link is idempotent per recipe.  Every
\* get-link request of a sequence for one existing recipe returns a token, the
\* token is the one the recipe's single ShortLink row holds, and a request
\* for a recipe that already has a row returns that row's token and stores
\* nothing.
C13_step ==
    \A w \in Workers, pk \in DOMAIN Recipe :
        LinkCompletes(w, pk) =>
            LET url == get_absolute_url(pk)
            IN /\ response'.status = HTTP_200_OK
               /\ get(ShortLink', url) =
                      {[original_url |-> url, short_link |-> response'.body[2]]}
               /\ get(ShortLink, url) # {} =>
                      /\ ShortLink' = ShortLink
                      /\ \E row \in get(ShortLink, url) :
                             row.short_link = response'.body[2]

C13_Idempotent == [][C13_step]_vars

\* C14: a get-link request for an existing recipe that has no short link yet
\* stores a mapping for the recipe and returns its token, also when the token
\* it sampled is already stored for another recipe; and no two recipes share
\* a token.
C14_step ==
    \A w \in Workers, pk \in DOMAIN Recipe :
        (req[w].pc \in {"link_create", "link_retry"} /\ LinkCompletes(w, pk)) =>
            /\ response'.status = HTTP_200_OK
            /\ [original_url |-> get_absolute_url(pk),
                short_link |-> response'.body[2]] \in ShortLink'

C14_CollisionTolerated ==
    /\ [][C14_step]_vars
    /\ [](\A row, other \in ShortLink :
             row.short_link = other.short_link =>
                 row.original_url = other.original_url)

\* C18: under every interleaving of concurrent get-link requests the
\* ShortLink table holds at most one row per original URL, and no get-link
\* request fails because several rows match.
C18_OneRowPerUrl ==
    /\ \A pk \in RecipeIds :
           Cardinality(get(ShortLink, get_absolute_url(pk))) <= 1
    /\ response.error # "MultipleObjectsReturned"

\* C15: the author of a recipe is the caller of the create request, and no
\* later step changes it: not an update by the author, not an update by an
\* admin, whatever author value the body of the create or the update carries.
C15_step ==
    /\ \A pk \in DOMAIN Recipe : Recipe'[pk].author = Recipe[pk].author
    /\ \A w \in Workers, user \in Users, data \in AuthorPayloads :
           (recipe_create(w, user, data) /\ req'[w].pc = "create_recipe") =>
               req'[w].user = user
    /\ \A w \in Workers :
           (req[w].pc = "create_ingredients" /\ Commits(w)) =>
               /\ Len(Recipe') = Len(Recipe) + 1
               /\ Recipe'[Len(Recipe')].author = req[w].user

C15_AuthorImmutable == [][C15_step]_vars

\* An admin's update of a recipe of another account has committed.
C15_Witness ==
    /\ response.op = "update" /\ response.status = HTTP_200_OK
    /\ response.body[1] \in Admins
    /\ Recipe[response.body[2]].author \notin Admins

\* C16: the recipes are listed by creation time, the newest first.  Ids are
\* given in creation order, so every listing is the ids from the last created
\* down to the first, whatever updates happened in between.
C16_NewestCreatedFirst ==
    [][\A w \in Workers :
          recipe_list(w) =>
              response'.body = [i \in 1..Len(Recipe) |-> Len(Recipe) + 1 - i]]_vars

\* C17: a recipe write request that reaches validate() either enters the write
\* (and then succeeds) or is rejected with a ValidationFailure; in particular
\* a PATCH with ingredients and tags and without cooking_time is applied or
\* rejected, and never ends with an unhandled fault.
C17_step ==
    \A w \in Workers :
        (/\ Receives(w)
         /\ req'[w].pc \notin {"create_recipe", "update_delete"}
         /\ ~Rejected("create") /\ ~Rejected("update")) =>
            \A user \in Clients, data \in Payloads :
                /\ ~recipe_create(w, user, data)
                /\ \A pk \in DOMAIN Recipe, partial \in BOOLEAN :
                       has_object_permission(user, pk) =>
                           ~recipe_update(w, user, pk, data, partial)

C17_SuccessOrValidationFailure == [][C17_step]_vars

====
